---- MODULE Spec2Model ----
(***************************************************************************)
(* Model of notebooks/Model-Development.ipynb: the anomaly-detection       *)
(* workflow on the turbofan data set.  One action per statement group of   *)
(* a notebook cell, executed top to bottom; pc is the position in the      *)
(* notebook.                                                               *)
(*                                                                         *)
(* Numbers.  The notebook computes in IEEE doubles; the model computes in  *)
(* exact rationals <<n, d>> (d > 0, lowest terms), so the statements      *)
(* below are about the arithmetic the code asks for.  The one place where  *)
(* rounding decides a label, the interpolation inside np.percentile, is    *)
(* modelled a second time in floats of Precision significant bits          *)
(* (PercentileRounded, SpecRounded).                                       *)
(* Library calls (scikit-learn, numpy, keras) are modelled by what the     *)
(* call documents: the place each is called from is the place it models.   *)
(***************************************************************************)
EXTENDS Integers, Sequences, FiniteSets, TLC

VARIABLES
    pc,                   \* position in the notebook
    train_df,             \* pd.read_csv(train.csv): sequence of rows
    validation_df,        \* pd.read_csv(validation.csv)
    X_train, y_train,     \* train_df[features], train_df['label']
    X_validation, y_validation,
    scaler,               \* RobustScaler state: None until fit
    X_train_norm, X_validation_norm,
    models_unsupervised,  \* name -> fitted scorer (None until fit)
    fit_log,              \* what every fit call was given (history)
    results_unsupervised, \* name -> performance mapping
    autoencoder,          \* weights of the keras model being trained
    epoch,                \* passes completed by autoencoder.fit
    val_loss_of,          \* weights -> loss on validation_data, for this fit
    best,                 \* ModelCheckpoint.best
    min_seen,             \* least val_loss over the passes so far (history)
    model_h5,             \* content of the file model.h5 (None: no file)
    trained_model,        \* load_model('model.h5')
    train_mse, thresh_train,
    val_mse, yhat,
    pred, anomaly_score,  \* loop variables of the evaluation cell
    perf_autoencoder,     \* value of performance(yhat, y_validation)
    twin_df,              \* held-out data of a second run of the same training
    twin_validation_norm, twin_autoencoder, twin_val_loss_of, twin_best,
    twin_h5, twin_trained, twin_mse, twin_thresh,
    sections,             \* the sections of the notebook this run executes
    class_ratio,          \* share of anomalies among the training labels
    perf,                 \* loop variable: the last value of performance(...)
    figure,               \* the confusion matrix last plotted
    models_supervised,    \* name -> fitted classifier
    results_supervised,   \* name -> performance mapping
    files,                \* joblib files: name -> content
    results, comparison_df           \* the merged mapping and the comparison table

vars == <<pc, train_df, validation_df, X_train, y_train, X_validation,
          y_validation, scaler, X_train_norm, X_validation_norm,
          models_unsupervised, fit_log, results_unsupervised, autoencoder,
          epoch, val_loss_of, twin_val_loss_of, best, min_seen, model_h5, trained_model, train_mse,
          thresh_train, val_mse, yhat, pred, anomaly_score,
          perf_autoencoder, twin_df,
          twin_validation_norm, twin_autoencoder, twin_best, twin_h5,
          twin_trained, twin_mse, twin_thresh, sections, class_ratio, perf,
          figure, models_supervised, results_supervised, files, results, comparison_df>>

None == "None"
\* np.inf and nan, in the shape of the rationals: every comparison with NaN
\* is false, and every finite number is less than Inf
Inf == <<1, 0>>
NaN == <<0, 0>>

\* ------------------------------------------------------------------ bounds
MaxRows == 2
E2EMaxScore == 3
MaxLabels == 3
MaxScores == 4
Precision == 6

\* ------------------------------------------------------- exact arithmetic
Abs(x) == IF x < 0 THEN -x ELSE x

RECURSIVE GCD(_, _)
GCD(a, b) == IF b = 0 THEN a ELSE GCD(b, a % b)

\* Arguments are bound as values (the quantified a, b) so that an operand is
\* computed once however often the body reads it.
\* Lift(d, e): the factor that takes denominator d to the common denominator
\* of d and e; plain cross-multiplication when one is 0 (Inf, NaN).
Lift(d, e) == IF d = 0 \/ e = 0 THEN e ELSE e \div GCD(d, e)

Rat(n, d) ==
    CHOOSE r \in { <<((IF b < 0 THEN -1 ELSE 1) * a) \div g,
                     ((IF b < 0 THEN -1 ELSE 1) * b) \div g>> :
                   g \in {IF a = 0 /\ b = 0 THEN 1 ELSE GCD(Abs(a), Abs(b)) :
                            a \in {n}, b \in {d}},
                   a \in {n}, b \in {d} } : TRUE

Int2R(x) == <<x, 1>>
Zero == <<0, 1>>
One == <<1, 1>>
RAdd(p, q) ==
    CHOOSE r \in { Rat(a[1] * Lift(a[2], b[2]) + b[1] * Lift(b[2], a[2]),
                        a[2] * Lift(a[2], b[2])) : a \in {p}, b \in {q} } : TRUE
RNeg(p) == CHOOSE r \in { <<-a[1], a[2]>> : a \in {p} } : TRUE
RSub(p, q) == RAdd(p, RNeg(q))
RMul(p, q) ==
    CHOOSE r \in { Rat(a[1] * b[1], a[2] * b[2]) : a \in {p}, b \in {q} } : TRUE
RDiv(p, q) ==
    CHOOSE r \in { Rat(a[1] * b[2], a[2] * b[1]) : a \in {p}, b \in {q} } : TRUE
RLt(p, q) ==
    \E a \in {p}, b \in {q} : a[1] * Lift(a[2], b[2]) < b[1] * Lift(b[2], a[2])
RLe(p, q) ==
    \E a \in {p}, b \in {q} : a[1] * Lift(a[2], b[2]) <= b[1] * Lift(b[2], a[2])

Range(s) == {s[i] : i \in DOMAIN s}

RECURSIVE RSum(_)
RSum(s) ==
    IF s = <<>> THEN Zero
    ELSE CHOOSE r \in {RAdd(s[1], rest) : rest \in {RSum(Tail(s))}} : TRUE

\* ------------------------------------------------------------ numpy calls
CountLt(s, v) == Cardinality({i \in DOMAIN s : RLt(s[i], v)})
CountLe(s, v) == Cardinality({i \in DOMAIN s : RLe(s[i], v)})

\* the k-th order statistic (k = 1 is the minimum) of a non-empty sequence
KthSmallest(s, k) ==
    CHOOSE v \in Range(s) : CountLt(s, v) < k /\ k <= CountLe(s, v)

\* np.percentile(a, q, interpolation='lower'): the order statistic below
PercentileLower(a, q) ==
    IF Len(a) = 0 THEN NaN
    ELSE KthSmallest(a, ((q * (Len(a) - 1)) \div 100) + 1)

\* np.percentile(a, q): linear interpolation between the two order
\* statistics around the position q/100 * (n - 1); nan for an empty array
Percentile(a, q) ==
    IF Len(a) = 0 THEN NaN
    ELSE LET n == Len(a)
             pos == q * (n - 1)
             k == pos \div 100
             f == Rat(pos % 100, 100)
             lo == KthSmallest(a, k + 1)
             hi == KthSmallest(a, IF k + 2 <= n THEN k + 2 ELSE n)
         IN  RAdd(lo, RMul(f, RSub(hi, lo)))

\* ------------------------------------------------ np.percentile in floats
\* A positive n/d scaled by powers of two into [2^(Precision-1), 2^Precision):
\* <<n', d', e>> with n/d = n'/d' * 2^e
RECURSIVE Normalize(_, _, _)
Normalize(n, d, e) ==
    IF n < (2 ^ (Precision - 1)) * d THEN Normalize(2 * n, d, e - 1)
    ELSE IF n >= (2 ^ Precision) * d THEN Normalize(n, 2 * d, e + 1)
    ELSE <<n, d, e>>

\* the result of one floating-point operation: the exact value rounded to
\* the nearest number of Precision significant bits, a tie to the even one
\* (IEEE round-to-nearest-even; a double has 53 bits)
RoundToNearest(x) ==
    IF x[1] = 0 \/ x[2] = 0 THEN x
    ELSE LET t == Normalize(Abs(x[1]), x[2], 0)
             q == t[1] \div t[2]
             r == t[1] % t[2]
             m == IF 2 * r > t[2] \/ (2 * r = t[2] /\ q % 2 = 1) THEN q + 1 ELSE q
             sgn == IF x[1] < 0 THEN -1 ELSE 1
         IN  IF t[3] >= 0 THEN Int2R(sgn * m * (2 ^ t[3]))
             ELSE Rat(sgn * m, 2 ^ (0 - t[3]))

\* np.percentile(a, q) as numpy evaluates it in floating point (the releases
\* that run on the Python 3.6 the Pipfile requires): the position
\* q/100 * (n - 1), its fractional part as the weight of the upper order
\* statistic, one minus that as the weight of the lower, and the sum of the
\* two weighted statistics, every operation rounded
PercentileRounded(a, q) ==
    IF Len(a) = 0 THEN NaN
    ELSE LET n == Len(a)
             indices == RoundToNearest(RMul(RoundToNearest(Rat(q, 100)), Int2R(n - 1)))
             indices_below == indices[1] \div indices[2]
             weights_above == RoundToNearest(RSub(indices, Int2R(indices_below)))
             weights_below == RoundToNearest(RSub(One, weights_above))
             x1 == RoundToNearest(RMul(KthSmallest(a, indices_below + 1), weights_below))
             x2 == RoundToNearest(
                       RMul(KthSmallest(a, IF indices_below + 2 <= n
                                           THEN indices_below + 2 ELSE n),
                            weights_above))
         IN  RoundToNearest(RAdd(x1, x2))

\* the numbers of Precision significant bits in [1, 2)
Significands ==
    {Rat(m, 2 ^ (Precision - 1)) : m \in (2 ^ (Precision - 1))..((2 ^ Precision) - 1)}
\* the same list with the label column appended
featuresWithLabel ==
    [i \in 1..3 |-> "setting" \o ToString(i)] \o [i \in 1..21 |-> "s" \o ToString(i)]
        \o <<"label">>

\* features = ['setting1'..'setting3'] + ['s1'..'s21']
features ==
    [i \in 1..3 |-> "setting" \o ToString(i)] \o [i \in 1..21 |-> "s" \o ToString(i)]

FeatureIndex(c) == CHOOSE j \in DOMAIN features : features[j] = c

Columns == {"id", "cycle", "RUL", "label"} \cup Range(features)

\* one row of the csv files; the three settings read a, the sensors read b
MkRow(id, cycle, a, b, rul, lab) ==
    [c \in Columns |->
        CASE c = "id" -> id
          [] c = "cycle" -> cycle
          [] c = "RUL" -> rul
          [] c = "label" -> lab
          [] c \in {"setting1", "setting2", "setting3"} -> a
          [] OTHER -> b]

\* consecutive rows of a data file: the last cycle of one engine, then the
\* run to failure of the next; label is 1 close to the failure (RUL <= 1)
Series ==
    << MkRow(1, 9, 0, 0, 0, 1), MkRow(2, 1, 1, 0, 2, 0),
       MkRow(2, 2, 1, 2, 1, 1), MkRow(2, 3, 2, 5, 0, 1) >>

\* the data files the model reads: the windows of the series of 1..MaxRows rows
DataSets ==
    { SubSeq(Series, w[1], w[1] + w[2] - 1) :
        w \in {v \in (1..Len(Series)) \X (1..MaxRows) :
                  v[1] + v[2] - 1 <= Len(Series)} }

Select(df, cols) == [i \in DOMAIN df |-> [c \in Range(cols) |-> df[i][c]]]
Labels(df) == [i \in DOMAIN df |-> df[i]["label"]]
ColumnsOf(X) == UNION {DOMAIN X[i] : i \in DOMAIN X}
ColumnR(X, c) == [i \in DOMAIN X |-> Int2R(X[i][c])]

\* --------------------------------------------------------- RobustScaler
\* scaler.fit(X): per column the median and the 25..75 percentile range; a
\* zero range scales by 1
RobustScalerFit(X) ==
    LET cols == ColumnsOf(X)
        iqr(c) == RSub(Percentile(ColumnR(X, c), 75), Percentile(ColumnR(X, c), 25))
    IN  [center_ |-> [c \in cols |-> Percentile(ColumnR(X, c), 50)],
         scale_ |-> [c \in cols |-> IF iqr(c) = Zero THEN One ELSE iqr(c)]]

Scaled(sc, X) ==
    [i \in DOMAIN X |->
        [c \in DOMAIN X[i] |->
            RDiv(RSub(Int2R(X[i][c]), sc.center_[c]), sc.scale_[c])]]

\* a call scaler.fit_transform(X): refits on X, then transforms
ScalerFitTransform(sc, X) ==
    [self |-> RobustScalerFit(X), out |-> Scaled(RobustScalerFit(X), X)]

\* a call scaler.transform(X): the scaler after the call, and what it returns
ScalerTransform(sc, X) == [self |-> sc, out |-> Scaled(sc, X)]

\* ------------------------------------------------------ sklearn.metrics
\* metrics.accuracy_score(y, yhat, normalize=False): the number of such rows
accuracy_score_count(y, yh) ==
    IF Len(y) = 0 THEN NaN
    ELSE Int2R(Cardinality({i \in DOMAIN y : y[i] = yh[i]}))

\* metrics.accuracy_score(y, yhat): the fraction of rows with y = yhat
accuracy_score(y, yh) ==
    IF Len(y) = 0 THEN NaN
    ELSE Rat(Cardinality({i \in DOMAIN y : y[i] = yh[i]}), Len(y))

RECURSIVE SortDesc(_)
\* the distinct values of a set of rationals, largest first
SortDesc(S) ==
    IF S = {} THEN <<>>
    ELSE LET m == CHOOSE v \in S : \A u \in S : RLe(u, v)
         IN  <<m>> \o SortDesc(S \ {m})

\* metrics.roc_curve(y, score, pos_label): false- and true-positive rate at
\* every distinct score taken as threshold (score >= threshold counts
\* positive), largest threshold first, collinear inner points dropped,
\* (0, 0) prepended
roc_curve_pos(y, score, pos_label) ==
    LET thr == SortDesc(Range(score))
        fps == [k \in DOMAIN thr |->
                  Cardinality({i \in DOMAIN y : y[i] # pos_label /\ RLe(thr[k], score[i])})]
        tps == [k \in DOMAIN thr |->
                  Cardinality({i \in DOMAIN y : y[i] = pos_label /\ RLe(thr[k], score[i])})]
        n == Len(thr)
        keep == {k \in 1..n :
                   \/ k = 1 \/ k = n
                   \/ fps[k + 1] - 2 * fps[k] + fps[k - 1] # 0
                   \/ tps[k + 1] - 2 * tps[k] + tps[k - 1] # 0}
        idx == [j \in 1..Cardinality(keep) |->
                  CHOOSE k \in keep : Cardinality({h \in keep : h < k}) = j - 1]
        neg == fps[n]
        pos == tps[n]
        rate(c, total) == IF total = 0 THEN NaN ELSE Rat(c, total)
    IN  [FP |-> <<Zero>> \o [j \in DOMAIN idx |-> rate(fps[idx[j]], neg)],
         TP |-> <<Zero>> \o [j \in DOMAIN idx |-> rate(tps[idx[j]], pos)]]

\* the curve with label 0 taken as the positive class
roc_curve_pos_label0(y, score) == roc_curve_pos(y, score, 0)

\* metrics.roc_curve(y, score) on labels 0 and 1: pos_label is 1
roc_curve(y, score) == roc_curve_pos(y, score, 1)

\* metrics.auc(x, y): area under the polyline by the trapezoidal rule
auc(FP, TP) ==
    IF \E k \in DOMAIN FP : FP[k] = NaN \/ TP[k] = NaN THEN NaN
    ELSE RSum([k \in 1..(Len(FP) - 1) |->
                 RMul(RSub(FP[k + 1], FP[k]),
                      RMul(Rat(1, 2), RAdd(TP[k + 1], TP[k])))])

\* confusion_matrix(y_true, y_pred): entry [t][p] counts the rows whose first
\* argument is t and whose second is p, over the labels that occur in either
confusion_matrix(y_true, y_pred) ==
    LET labels == Range(y_true) \cup Range(y_pred)
    IN  [t \in labels |-> [p \in labels |->
            Cardinality({i \in DOMAIN y_true : y_true[i] = t /\ y_pred[i] = p})]]

\* plot_confmat(y_true, y_pred): the heatmap of confusion_matrix(y_true,
\* y_pred); its rows are drawn along the axis labelled 'True', its columns
\* along the axis labelled 'Predicted'
plot_confmat(y_true, y_pred) ==
    [conf_matrix |-> confusion_matrix(y_true, y_pred),
     ylabel |-> "True", rows |-> y_true,
     xlabel |-> "Predicted", columns |-> y_pred]

\* performance with the test on score dropped: the curve is always computed
performanceAlways(yh, y, score) ==
    LET roc == roc_curve(y, IF score = <<>> THEN [i \in DOMAIN y |-> Zero] ELSE score[1])
    IN  [k \in {"accuracy", "FP_TP", "AUC", "yhat"} |->
            CASE k = "accuracy" -> accuracy_score(y, yh)
              [] k = "FP_TP" -> <<roc.FP, roc.TP>>
              [] k = "AUC" -> auc(roc.FP, roc.TP)
              [] OTHER -> yh]

\* performance(yhat, y, score=None); score is <<>> for None, <<scores>> else
performance(yh, y, score) ==
    IF score = <<>>
    THEN [k \in {"accuracy"} |-> accuracy_score(y, yh)]
    ELSE LET roc == roc_curve(y, score[1])
         IN  [k \in {"accuracy", "FP_TP", "AUC", "yhat"} |->
                CASE k = "accuracy" -> accuracy_score(y, yh)
                  [] k = "FP_TP" -> <<roc.FP, roc.TP>>
                  [] k = "AUC" -> auc(roc.FP, roc.TP)
                  [] OTHER -> yh]

\* ------------------------------------------------- statistical scorers
nu_percent == 10
contamination_percent == 5

RECURSIVE SumFirst(_, _)
\* the sum of f over the first k feature columns
SumFirst(f, k) ==
    IF k = 0 THEN Zero
    ELSE CHOOSE r \in {RAdd(f[features[k]], rest) : rest \in {SumFirst(f, k - 1)}} : TRUE

\* the sum of f over all its columns
SumCols(f) == CHOOSE r \in {SumFirst(g, Cardinality(DOMAIN g)) : g \in {f}} : TRUE

SqDist(x, z) ==
    SumCols([c \in DOMAIN x |-> RMul(RSub(x[c], z[c]), RSub(x[c], z[c]))])

\* model.score_samples(X): larger is more normal.  Both scorers are stood
\* for by the negated squared distance to a robust location of the fit data.
score_samples(m, X) == [i \in DOMAIN X |-> RNeg(SqDist(X[i], m.location_))]

\* model.fit(X) of OneClassSVM(nu) and EllipticEnvelope(contamination): the
\* location is the column median of X, and offset_ is the score below which
\* the configured fraction of the fit data lies.  Only X is read.
FitScorer(name, X) ==
    LET kind == IF name = "OneClassSVM" THEN "OneClassSVM" ELSE "EllipticEnvelope"
        loc == [c \in ColumnsOf(X) |->
                  Percentile([i \in DOMAIN X |-> X[i][c]], 50)]
        m0 == [kind |-> kind, location_ |-> loc, offset_ |-> Zero]
        frac == IF kind = "OneClassSVM" THEN nu_percent ELSE contamination_percent
    IN  [m0 EXCEPT !.offset_ = Percentile(score_samples(m0, X), frac)]

\* model.decision_function(X) = score_samples(X) - offset_
decision_function(m, X) ==
    [i \in DOMAIN X |-> RSub(score_samples(m, X)[i], m.offset_)]

\* model.predict(X): +1 inlier, -1 outlier.  libsvm's one-class predict is
\* +1 iff the decision value is > 0; EllipticEnvelope's is +1 iff it is >= 0.
predict(m, X) ==
    LET d == decision_function(m, X)
    IN  [i \in DOMAIN X |->
            IF m.kind = "OneClassSVM"
            THEN (IF RLt(Zero, d[i]) THEN 1 ELSE -1)
            ELSE (IF RLe(Zero, d[i]) THEN 1 ELSE -1)]

\* the decision value taken as anomaly score without the sign flip
anomaly_score_unflipped(m, X) == decision_function(m, X)

\* anomaly_score = - model.decision_function(X_validation_norm)
anomaly_score_of(m, X) ==
    [i \in DOMAIN X |-> RNeg(decision_function(m, X)[i])]

\* yhat = np.where(pred == -1, 1, 0)
yhat_of(p) == [i \in DOMAIN p |-> IF p[i] = -1 THEN 1 ELSE 0]

ModelNames == <<"OneClassSVM", "RobustCovariance">>

\* ------------------------------------------------------------ classifiers
\* the keys of models_supervised, in the order the dict lists them
SupervisedNames ==
    <<"LogisticRegression", "RandomForestClassifier", "KNeighborsClassifier", "SVC">>

\* KNeighborsClassifier(): n_neighbors defaults to 5
n_neighbors == 5

\* consecutive rows of a data file long enough for the classifiers: the run
\* to failure of one engine; label is 1 close to the failure (RUL <= 1)
LongSeries ==
    << MkRow(3, 1, 0, 0, 6, 0), MkRow(3, 2, 1, 0, 5, 0), MkRow(3, 3, 1, 2, 4, 0),
       MkRow(3, 4, 2, 5, 3, 0), MkRow(3, 5, 0, 1, 2, 0), MkRow(3, 6, 2, 3, 1, 1),
       MkRow(3, 7, 1, 4, 0, 1) >>

\* its windows of n_neighbors rows and up to MaxRows - 1 more
LongDataSets ==
    { SubSeq(LongSeries, w[1], w[1] + w[2] - 1) :
        w \in {v \in (1..Len(LongSeries)) \X (n_neighbors..(n_neighbors + MaxRows - 1)) :
                  v[1] + v[2] - 1 <= Len(LongSeries)} }

\* y.value_counts().reindex([0, 1], fill_value=0): a count for both labels
value_counts_reindexed(y) ==
    [v \in {0, 1} |-> Cardinality({i \in DOMAIN y : y[i] = v})]

\* y.value_counts(): how often each value that occurs in y occurs
value_counts(y) ==
    [v \in Range(y) |-> Cardinality({i \in DOMAIN y : y[i] = v})]

\* the mean of the rows of X labelled cls, column by column
ClassMean(X, y, cls) ==
    LET rows == {i \in DOMAIN X : y[i] = cls}
    IN  [c \in ColumnsOf(X) |->
            RDiv(RSum([i \in DOMAIN X |-> IF i \in rows THEN X[i][c] ELSE Zero]),
                 Int2R(Cardinality(rows)))]

\* model.fit(X, y) of the four classifiers.  Each is stood for by the means
\* of the two classes; X and y are both read.
FitClassifier(name, X, y) ==
    [kind |-> name, n_samples_fit_ |-> Len(X),
     mu0 |-> ClassMean(X, y, 0), mu1 |-> ClassMean(X, y, 1)]

\* model.predict_proba(X)[:, 1]: the share of the distance to the mean of
\* class 0 in the distances to both means
predict_proba(m, X) ==
    [i \in DOMAIN X |->
        LET d0 == SqDist(X[i], m.mu0)
            d1 == SqDist(X[i], m.mu1)
        IN  IF RAdd(d0, d1) = Zero THEN Rat(1, 2) ELSE RDiv(d0, RAdd(d0, d1))]

\* model.predict(X) of a classifier: the more probable class, 0 on a tie
predict_class(m, X) ==
    [i \in DOMAIN X |-> IF RLt(Rat(1, 2), predict_proba(m, X)[i]) THEN 1 ELSE 0]

\* ------------------------------------------------------------ persistence
\* the attributes of a fitted object that are arrays with one entry per
\* feature column
ArrayAttributes == {"center_", "scale_", "mu0", "mu1"}

\* a dump that keeps the whole part of every array entry only
joblib_dump_rounded(obj) ==
    [a \in DOMAIN obj |->
        IF a \in ArrayAttributes
        THEN [k \in 1..Len(features) |-> Int2R(obj[a][features[k]][1] \div obj[a][features[k]][2])]
        ELSE obj[a]]

\* joblib.dump(obj, filename): the content written.  The attributes of the
\* object are pickled; an array is written as its entries in column order.
joblib_dump(obj) ==
    [a \in DOMAIN obj |->
        IF a \in ArrayAttributes
        THEN [k \in 1..Len(features) |-> obj[a][features[k]]]
        ELSE obj[a]]

\* joblib.load(filename): the object rebuilt from the content; entry k of an
\* array belongs to the k-th feature column
joblib_load(content) ==
    [a \in DOMAIN content |->
        IF a \in ArrayAttributes
        THEN [c \in Range(features) |-> content[a][FeatureIndex(c)]]
        ELSE content[a]]

\* ------------------------------------------------------------ autoencoder
encoding_dim == 20
n_epochs == 100
threshold_quantile == 95
l1_penalty == Rat(1, 10000)

Relu(r) == CHOOSE v \in { IF a[1] < 0 THEN Zero ELSE a : a \in {r} } : TRUE

\* The weights Input(24) -> Dense(20, relu) -> Dense(24, relu) can take, cut
\* down to a family of three: hidden unit j copies relu(x_j); output j is
\* relu(g * hidden_j + b) for j <= 20 and relu(b) for the four outputs no
\* hidden unit feeds.
WeightSpace == {[g |-> 0, b |-> 0], [g |-> 0, b |-> 1], [g |-> 1, b |-> 0]}

Hidden(x) == [c \in {d \in DOMAIN x : FeatureIndex(d) <= encoding_dim} |-> Relu(x[c])]

\* model.predict(X)
Predict(w, X) ==
    [i \in DOMAIN X |->
        [c \in DOMAIN X[i] |->
            IF FeatureIndex(c) <= encoding_dim
            THEN Relu(RAdd(RMul(Int2R(w.g), Relu(X[i][c])), Int2R(w.b)))
            ELSE Relu(Int2R(w.b))]]

\* the squared error summed, not averaged, over the columns
squared_error_summed(P, X) == [i \in DOMAIN X |-> SqDist(P[i], X[i])]

\* mean_squared_error(P.T, X.T, multioutput='raw_values'): one value per row,
\* the mean over the columns of the squared difference
mean_squared_error(P, X) ==
    [i \in DOMAIN X |->
        RDiv(SqDist(P[i], X[i]), Int2R(Cardinality(DOMAIN X[i])))]

ReconstructionErrors(w, X) == mean_squared_error(Predict(w, X), X)

\* the loss keras reports for a data set that fits one batch: the mean of the
\* squared errors plus the l1 penalty on the hidden activations
Loss(w, X) ==
    LET e == ReconstructionErrors(w, X)
        act == [i \in DOMAIN X |-> SumCols(Hidden(X[i]))]
    IN  RAdd(RDiv(RSum(e), Int2R(Len(X))), RMul(l1_penalty, RSum(act)))

\* a pass whose result is kept only when it does not worsen the held-out loss
TrainPassValidated(w, Xtr, Xval, step) ==
    IF RLe(Loss(step, Xval), Loss(w, Xval)) THEN step ELSE w

\* One pass of autoencoder.fit over the shuffled training set: the optimizer
\* moves the weights to `step`, which the shuffle and the training batches
\* decide; the held-out data is only evaluated afterwards.
TrainPass(w, Xtr, Xval, step) == step

\* fit with an EarlyStopping(monitor='val_loss') callback added
FitStopsEarly(ep) ==
    \/ ep >= n_epochs
    \/ ep > 0 /\ RLt(best, val_loss_of[autoencoder[1]])

\* autoencoder.fit(epochs=n_epochs) returns after n_epochs passes
FitStops(ep) == ep >= n_epochs

\* ModelCheckpoint(save_best_only=False): every pass is written
ShouldSaveAlways(current, bst) == TRUE

\* ModelCheckpoint(save_best_only=True), monitor 'val_loss', mode 'auto':
\* written when np.less(current, self.best)
ShouldSave(current, bst) == RLt(current, bst)

\* --------------------------------------------------------- thresholding
LabelExclusive(imse, t) == IF RLe(imse, t) THEN 0 ELSE 1

\* 0 if imse < thresh_train else 1
Label(imse, t) == IF RLt(imse, t) THEN 0 ELSE 1

\* the threshold recomputed from the scores being binarized
BinarizeThresholdOwn(t, scores) == Percentile(scores, threshold_quantile)

\* the threshold the list comprehension compares against: thresh_train
BinarizeThreshold(t, scores) == t

\* ------------------------------------------------------------- notebook
\* the cells (and the statements inside them) in the order they run
Cells ==
    << "select", "class_ratio",
       "scaler_fit", "transform_train", "transform_validation",
       "fit:OneClassSVM", "fit:RobustCovariance",
       "eval:OneClassSVM", "eval:RobustCovariance", "plot:OneClassSVM",
       "fit_sup:LogisticRegression", "fit_sup:RandomForestClassifier",
       "fit_sup:KNeighborsClassifier", "fit_sup:SVC",
       "eval_sup:LogisticRegression", "eval_sup:RandomForestClassifier",
       "eval_sup:KNeighborsClassifier", "eval_sup:SVC",
       "plot:KNeighborsClassifier",
       "compile", "fit_autoencoder", "threshold", "validation",
       "plot:autoencoder",
       "dump_model", "dump_scaler", "compare", "done" >>

CellIndex(p) == CHOOSE k \in DOMAIN Cells : Cells[k] = p

\* the section of the notebook (its top-level heading) a cell stands under
Section(p) ==
    LET k == CellIndex(p)
    IN  CASE k <= CellIndex("class_ratio") -> "Exploratory data analysis"
          [] k <= CellIndex("fit:RobustCovariance") -> "Unsupervised learning"
          [] k <= CellIndex("plot:OneClassSVM") -> "Model evaluation metrics"
          [] k <= CellIndex("plot:KNeighborsClassifier") -> "Supervised learning"
          [] k <= CellIndex("plot:autoencoder") -> "Deep learning-based approaches"
          [] k <= CellIndex("dump_scaler") -> "Model persistence"
          [] OTHER -> "Model comparison"

\* A run executes the cells of the sections it has selected, top to bottom.
\* The statistical and the deep-learning part of the workflow:
WorkflowSections ==
    {"Exploratory data analysis", "Unsupervised learning",
     "Model evaluation metrics", "Deep learning-based approaches"}
\* the baselines, what is persisted, and the comparison of the baselines:
ReportSections ==
    {"Exploratory data analysis", "Unsupervised learning",
     "Model evaluation metrics", "Supervised learning", "Model persistence",
     "Model comparison"}

\* the cell that runs after cell p
NextCell(p) ==
    LET later == {k \in DOMAIN Cells :
                    /\ k > CellIndex(p)
                    /\ Cells[k] = "done" \/ Section(Cells[k]) \in sections}
    IN  Cells[CHOOSE k \in later : \A h \in later : k <= h]
\* the notebook has run past cell p
Past(p) == pc \in Range(Cells) /\ CellIndex(pc) > CellIndex(p)

Fitted == {"OneClassSVM", "RobustCovariance", "autoencoder"}

Unset ==
    /\ X_train = <<>> /\ y_train = <<>>
    /\ X_validation = <<>> /\ y_validation = <<>>
    /\ scaler = <<>>
    /\ X_train_norm = <<>> /\ X_validation_norm = <<>>
    /\ models_unsupervised = [n \in Range(ModelNames) |-> <<>>]
    /\ fit_log = [n \in Fitted |-> <<>>]
    /\ results_unsupervised = [n \in Range(ModelNames) |-> <<>>]
    /\ autoencoder = <<>>
    /\ epoch = 0
    /\ val_loss_of = <<>> /\ twin_val_loss_of = <<>>
    /\ best = Inf /\ min_seen = Inf
    /\ model_h5 = <<>>
    /\ trained_model = <<>>
    /\ train_mse = <<>> /\ thresh_train = <<>>
    /\ val_mse = <<>> /\ yhat = <<>>
    /\ pred = <<>> /\ anomaly_score = <<>>
    /\ perf_autoencoder = <<>>
    /\ twin_validation_norm = <<>>
    /\ twin_autoencoder = <<>>
    /\ twin_best = Inf
    /\ twin_h5 = <<>>
    /\ twin_trained = <<>> /\ twin_mse = <<>> /\ twin_thresh = <<>>
    /\ class_ratio = <<>> /\ perf = <<>> /\ figure = <<>>
    /\ models_supervised = [n \in Range(SupervisedNames) |-> <<>>]
    /\ results_supervised = [n \in Range(SupervisedNames) |-> <<>>]
    /\ files = <<>>
    /\ results = <<>> /\ comparison_df = <<>>

\* train.csv and validation.csv are read; nothing else is defined yet.  A
\* train.csv that holds the header line only gives a frame of no rows.
Init ==
    /\ pc = "select"
    /\ train_df \in DataSets \cup {<<>>}
    /\ validation_df \in DataSets
    /\ twin_df = validation_df
    /\ sections = WorkflowSections
    /\ Unset

\* X_train, y_train = train_df[features], train_df['label'] (and validation)
SelectFeatures ==
    /\ pc = "select"
    /\ X_train' = Select(train_df, features)
    /\ y_train' = Labels(train_df)
    /\ X_validation' = Select(validation_df, features)
    /\ y_validation' = Labels(validation_df)
    /\ pc' = NextCell(pc)
    /\ UNCHANGED <<sections, class_ratio, perf, figure, models_supervised,
                   results_supervised, files, results, comparison_df, 
                   train_df, validation_df, scaler, X_train_norm,
                   X_validation_norm, models_unsupervised, fit_log,
                   results_unsupervised, autoencoder, epoch, best, min_seen,
                   model_h5, trained_model, train_mse, thresh_train, val_mse,
                   yhat, pred, anomaly_score, perf_autoencoder, twin_df,
                   twin_validation_norm, twin_autoencoder, twin_best, twin_h5,
                   twin_trained, twin_mse, twin_thresh, val_loss_of,
                   twin_val_loss_of>>

\* scaler = RobustScaler(); scaler.fit(X_train)
ScalerFit ==
    /\ pc = "scaler_fit"
    /\ scaler' = <<RobustScalerFit(X_train)>>
    /\ pc' = NextCell(pc)
    /\ UNCHANGED <<sections, class_ratio, perf, figure, models_supervised,
                   results_supervised, files, results, comparison_df, 
                   train_df, validation_df, X_train, y_train, X_validation,
                   y_validation, X_train_norm, X_validation_norm,
                   models_unsupervised, fit_log, results_unsupervised,
                   autoencoder, epoch, best, min_seen, model_h5, trained_model,
                   train_mse, thresh_train, val_mse, yhat, pred, anomaly_score,
                   perf_autoencoder, twin_df, twin_validation_norm,
                   twin_autoencoder, twin_best, twin_h5, twin_trained, twin_mse,
                   twin_thresh, val_loss_of, twin_val_loss_of>>

\* X_train_norm = scaler.transform(X_train)
TransformTrain ==
    /\ pc = "transform_train"
    /\ \E call \in {ScalerTransform(scaler[1], X_train)} :
          /\ scaler' = <<call.self>>
          /\ X_train_norm' = call.out
    /\ pc' = NextCell(pc)
    /\ UNCHANGED <<sections, class_ratio, perf, figure, models_supervised,
                   results_supervised, files, results, comparison_df, 
                   train_df, validation_df, X_train, y_train, X_validation,
                   y_validation, X_validation_norm, models_unsupervised, fit_log,
                   results_unsupervised, autoencoder, epoch, best, min_seen,
                   model_h5, trained_model, train_mse, thresh_train, val_mse,
                   yhat, pred, anomaly_score, perf_autoencoder, twin_df,
                   twin_validation_norm, twin_autoencoder, twin_best, twin_h5,
                   twin_trained, twin_mse, twin_thresh, val_loss_of,
                   twin_val_loss_of>>

\* X_validation_norm = scaler.transform(X_validation); the second run scales
\* its own held-out data with the scaler fit on the same training data
TransformValidation ==
    /\ pc = "transform_validation"
    /\ \E call \in {ScalerTransform(scaler[1], X_validation)} :
          /\ scaler' = <<call.self>>
          /\ X_validation_norm' = call.out
    /\ twin_validation_norm' =
          Scaled(RobustScalerFit(X_train), Select(twin_df, features))
    /\ pc' = NextCell(pc)
    /\ UNCHANGED <<sections, class_ratio, perf, figure, models_supervised,
                   results_supervised, files, results, comparison_df, 
                   train_df, validation_df, X_train, y_train, X_validation,
                   y_validation, X_train_norm, models_unsupervised, fit_log,
                   results_unsupervised, autoencoder, epoch, best, min_seen,
                   model_h5, trained_model, train_mse, thresh_train, val_mse,
                   yhat, pred, anomaly_score, perf_autoencoder, twin_df,
                   twin_autoencoder, twin_best, twin_h5, twin_trained, twin_mse,
                   twin_thresh, val_loss_of, twin_val_loss_of>>

\* models_unsupervised[model_name] = model.fit(X_train_norm)
FitUnsupervised(name) ==
    /\ pc = "fit:" \o name
    /\ models_unsupervised' =
          [models_unsupervised EXCEPT ![name] = <<FitScorer(name, X_train_norm)>>]
    /\ fit_log' = [fit_log EXCEPT ![name] = <<[X |-> X_train_norm, y |-> <<>>]>>]
    /\ pc' = NextCell(pc)
    /\ UNCHANGED <<sections, class_ratio, perf, figure, models_supervised,
                   results_supervised, files, results, comparison_df, 
                   train_df, validation_df, X_train, y_train, X_validation,
                   y_validation, scaler, X_train_norm, X_validation_norm,
                   results_unsupervised, autoencoder, epoch, best, min_seen,
                   model_h5, trained_model, train_mse, thresh_train, val_mse,
                   yhat, pred, anomaly_score, perf_autoencoder, twin_df,
                   twin_validation_norm, twin_autoencoder, twin_best, twin_h5,
                   twin_trained, twin_mse, twin_thresh, val_loss_of,
                   twin_val_loss_of>>

\* one turn of the loop over models_unsupervised: pred, yhat, anomaly_score,
\* perf = performance(yhat, y_validation, score=anomaly_score)
EvalUnsupervised(name) ==
    /\ pc = "eval:" \o name
    /\ pred' = predict(models_unsupervised[name][1], X_validation_norm)
    /\ yhat' = yhat_of(pred')
    /\ anomaly_score' = anomaly_score_of(models_unsupervised[name][1], X_validation_norm)
    /\ perf' = <<performance(yhat', y_validation, <<anomaly_score'>>)>>
    /\ results_unsupervised' = [results_unsupervised EXCEPT ![name] = perf']
    /\ pc' = NextCell(pc)
    /\ UNCHANGED <<sections, class_ratio, figure, models_supervised,
                   results_supervised, files, results, comparison_df, 
                   train_df, validation_df, X_train, y_train, X_validation,
                   y_validation, scaler, X_train_norm, X_validation_norm,
                   models_unsupervised, fit_log, autoencoder, epoch, best,
                   min_seen, model_h5, trained_model, train_mse, thresh_train,
                   val_mse, perf_autoencoder, twin_df, twin_validation_norm,
                   twin_autoencoder, twin_best, twin_h5, twin_trained, twin_mse,
                   twin_thresh, val_loss_of, twin_val_loss_of>>

\* the model is built with fresh (random) weights; checkpointer =
\* ModelCheckpoint(filepath="model.h5", save_best_only=True); compile; fit
\* is entered with X_train_norm as input and as target
CompileAndEnterFit ==
    /\ pc = "compile"
    /\ \E w0 \in WeightSpace :
          /\ autoencoder' = <<w0>>
          /\ twin_autoencoder' = <<w0>>
    /\ epoch' = 0
    /\ best' = Inf /\ twin_best' = Inf /\ min_seen' = Inf
    /\ val_loss_of' = [w \in WeightSpace |-> Loss(w, X_validation_norm)]
    /\ twin_val_loss_of' = [w \in WeightSpace |-> Loss(w, twin_validation_norm)]
    /\ fit_log' = [fit_log EXCEPT !["autoencoder"] =
                      <<[X |-> X_train_norm, y |-> <<X_train_norm>>,
                         validation_data |-> X_validation_norm]>>]
    /\ pc' = NextCell(pc)
    /\ UNCHANGED <<sections, class_ratio, perf, figure, models_supervised,
                   results_supervised, files, results, comparison_df, 
                   train_df, validation_df, X_train, y_train, X_validation,
                   y_validation, scaler, X_train_norm, X_validation_norm,
                   models_unsupervised, results_unsupervised, model_h5,
                   trained_model, train_mse, thresh_train, val_mse, yhat, pred,
                   anomaly_score, perf_autoencoder, twin_df,
                   twin_validation_norm, twin_h5, twin_trained, twin_mse,
                   twin_thresh>>

\* one pass of autoencoder.fit, then ModelCheckpoint.on_epoch_end on the
\* loss of validation_data (read from the table val_loss_of, which holds
\* Loss(w, X_validation_norm) for every w since fit was entered); the second
\* run does the same pass on the same training data and shuffle, with its
\* own held-out data
FitEpoch ==
    /\ pc = "fit_autoencoder"
    /\ ~FitStops(epoch)
    /\ \E step \in WeightSpace :
          /\ autoencoder' =
                <<TrainPass(autoencoder[1], X_train_norm, X_validation_norm, step)>>
          /\ twin_autoencoder' =
                <<TrainPass(twin_autoencoder[1], X_train_norm, twin_validation_norm, step)>>
    /\ epoch' = epoch + 1
    /\ \E current \in {val_loss_of[autoencoder'[1]]} :
          /\ min_seen' = IF RLe(min_seen, current) THEN min_seen ELSE current
          /\ IF ShouldSave(current, best)
             THEN best' = current /\ model_h5' = autoencoder'
             ELSE UNCHANGED <<best, model_h5>>
    /\ \E current \in {twin_val_loss_of[twin_autoencoder'[1]]} :
          IF ShouldSave(current, twin_best)
          THEN twin_best' = current /\ twin_h5' = twin_autoencoder'
          ELSE UNCHANGED <<twin_best, twin_h5>>
    /\ pc' = pc
    /\ UNCHANGED <<sections, class_ratio, perf, figure, models_supervised,
                   results_supervised, files, results, comparison_df, 
                   train_df, validation_df, X_train, y_train, X_validation,
                   y_validation, scaler, X_train_norm, X_validation_norm,
                   models_unsupervised, fit_log, results_unsupervised,
                   trained_model, train_mse, thresh_train, val_mse, yhat, pred,
                   anomaly_score, perf_autoencoder, twin_df,
                   twin_validation_norm, twin_trained, twin_mse, twin_thresh,
                   val_loss_of, twin_val_loss_of>>

\* autoencoder.fit returns
FitReturn ==
    /\ pc = "fit_autoencoder"
    /\ FitStops(epoch)
    /\ pc' = NextCell(pc)
    /\ UNCHANGED <<sections, class_ratio, perf, figure, models_supervised,
                   results_supervised, files, results, comparison_df, 
                   train_df, validation_df, X_train, y_train, X_validation,
                   y_validation, scaler, X_train_norm, X_validation_norm,
                   models_unsupervised, fit_log, results_unsupervised,
                   autoencoder, epoch, best, min_seen, model_h5, trained_model,
                   train_mse, thresh_train, val_mse, yhat, pred, anomaly_score,
                   perf_autoencoder, twin_df, twin_validation_norm,
                   twin_autoencoder, twin_best, twin_h5, twin_trained, twin_mse,
                   twin_thresh, val_loss_of, twin_val_loss_of>>

\* trained_model = load_model('model.h5'); train_mse; thresh_train
ThresholdCell ==
    /\ pc = "threshold"
    /\ model_h5 # <<>>
    /\ trained_model' = model_h5
    /\ train_mse' = ReconstructionErrors(model_h5[1], X_train_norm)
    /\ thresh_train' = Percentile(train_mse', threshold_quantile)
    /\ twin_trained' = twin_h5
    /\ twin_mse' = ReconstructionErrors(twin_h5[1], X_train_norm)
    /\ twin_thresh' = Percentile(twin_mse', threshold_quantile)
    /\ pc' = NextCell(pc)
    /\ UNCHANGED <<sections, class_ratio, perf, figure, models_supervised,
                   results_supervised, files, results, comparison_df, 
                   train_df, validation_df, X_train, y_train, X_validation,
                   y_validation, scaler, X_train_norm, X_validation_norm,
                   models_unsupervised, fit_log, results_unsupervised,
                   autoencoder, epoch, best, min_seen, model_h5, val_mse, yhat,
                   pred, anomaly_score, perf_autoencoder, twin_df,
                   twin_validation_norm, twin_autoencoder, twin_best, twin_h5,
                   val_loss_of, twin_val_loss_of>>

\* val_mse; yhat = [0 if imse < thresh_train else 1 for imse in val_mse];
\* performance(yhat, y_validation)
ValidationCell ==
    /\ pc = "validation"
    /\ val_mse' = ReconstructionErrors(trained_model[1], X_validation_norm)
    /\ yhat' = [i \in DOMAIN val_mse' |->
                  Label(val_mse'[i], BinarizeThreshold(thresh_train, val_mse'))]
    /\ perf_autoencoder' = <<performance(yhat', y_validation, <<>>)>>
    /\ pc' = NextCell(pc)
    /\ UNCHANGED <<sections, class_ratio, perf, figure, models_supervised,
                   results_supervised, files, results, comparison_df, 
                   train_df, validation_df, X_train, y_train, X_validation,
                   y_validation, scaler, X_train_norm, X_validation_norm,
                   models_unsupervised, fit_log, results_unsupervised,
                   autoencoder, epoch, best, min_seen, model_h5, trained_model,
                   train_mse, thresh_train, pred, anomaly_score, twin_df,
                   twin_validation_norm, twin_autoencoder, twin_best, twin_h5,
                   twin_trained, twin_mse, twin_thresh, val_loss_of,
                   twin_val_loss_of>>

\* only the first mapping is kept
KeepFirst(a, b) == a

\* {**a, **b}: the keys of both, b's value where both have the key
Merge(a, b) ==
    [k \in DOMAIN a \cup DOMAIN b |-> IF k \in DOMAIN b THEN b[k] ELSE a[k]]

\* the dict a results mapping holds so far: the names that have an entry
Dict(r) == [k \in {n \in DOMAIN r : r[n] # <<>>} |-> r[k][1]]

metrics_ == <<"accuracy", "AUC">>

\* the statement the cell at p stops at with an exception, if there is one:
\*   y_train.value_counts()[1]: KeyError when no training label is 1 (no
\*     label is, when there is no training row at all)
\*   LogisticRegression.fit: ValueError when y_train holds a single class
\*   KNeighborsClassifier.predict: ValueError when the fit saw fewer rows
\*     than n_neighbors
\*   result[key] for key in metrics_: KeyError when a result lacks a metric
Raises(p) ==
    CASE p = "class_ratio" -> 1 \notin DOMAIN value_counts(y_train)
      [] p = "fit_sup:LogisticRegression" -> Cardinality(Range(y_train)) < 2
      [] p = "eval_sup:KNeighborsClassifier" ->
            models_supervised["KNeighborsClassifier"][1].n_samples_fit_ < n_neighbors
      [] p = "compare" ->
            \E m \in DOMAIN Merge(Dict(results_supervised), Dict(results_unsupervised)) :
               \E k \in Range(metrics_) :
                  k \notin DOMAIN Merge(Dict(results_supervised),
                                        Dict(results_unsupervised))[m]
      [] OTHER -> FALSE

\* an exception ends the run: no later cell is executed
CellRaises ==
    /\ pc \in Range(Cells)
    /\ Raises(pc)
    /\ pc' = "error"
    /\ UNCHANGED <<sections, class_ratio, perf, figure, models_supervised,
                   results_supervised, files, results, comparison_df, train_df,
                   validation_df, X_train, y_train, X_validation, y_validation,
                   scaler, X_train_norm, X_validation_norm,
                   models_unsupervised, fit_log, results_unsupervised,
                   autoencoder, epoch, best, min_seen, model_h5, trained_model,
                   train_mse, thresh_train, val_mse, yhat, pred, anomaly_score,
                   perf_autoencoder, twin_df, twin_validation_norm,
                   twin_autoencoder, twin_best, twin_h5, twin_trained,
                   twin_mse, twin_thresh, val_loss_of, twin_val_loss_of>>

\* class_ratio = y_train.value_counts()[1] / len(y_train)
ClassRatio ==
    /\ pc = "class_ratio"
    /\ ~Raises(pc)
    /\ class_ratio' = <<Rat(value_counts(y_train)[1], Len(y_train))>>
    /\ pc' = NextCell(pc)
    /\ UNCHANGED <<sections, perf, figure, models_supervised,
                   results_supervised, files, results, comparison_df, train_df,
                   validation_df, X_train, y_train, X_validation, y_validation,
                   scaler, X_train_norm, X_validation_norm,
                   models_unsupervised, fit_log, results_unsupervised,
                   autoencoder, epoch, best, min_seen, model_h5, trained_model,
                   train_mse, thresh_train, val_mse, yhat, pred, anomaly_score,
                   perf_autoencoder, twin_df, twin_validation_norm,
                   twin_autoencoder, twin_best, twin_h5, twin_trained,
                   twin_mse, twin_thresh, val_loss_of, twin_val_loss_of>>

\* plot_confmat(y_validation, results_unsupervised['OneClassSVM']['yhat'])
PlotUnsupervised ==
    /\ pc = "plot:OneClassSVM"
    /\ figure' = <<plot_confmat(y_validation,
                                results_unsupervised["OneClassSVM"][1]["yhat"])>>
    /\ pc' = NextCell(pc)
    /\ UNCHANGED <<sections, class_ratio, perf, models_supervised,
                   results_supervised, files, results, comparison_df, train_df,
                   validation_df, X_train, y_train, X_validation, y_validation,
                   scaler, X_train_norm, X_validation_norm,
                   models_unsupervised, fit_log, results_unsupervised,
                   autoencoder, epoch, best, min_seen, model_h5, trained_model,
                   train_mse, thresh_train, val_mse, yhat, pred, anomaly_score,
                   perf_autoencoder, twin_df, twin_validation_norm,
                   twin_autoencoder, twin_best, twin_h5, twin_trained,
                   twin_mse, twin_thresh, val_loss_of, twin_val_loss_of>>

\* plot_confmat(yhat, y_validation), in the cell after the autoencoder's
\* validation cell
PlotAutoencoder ==
    /\ pc = "plot:autoencoder"
    /\ figure' = <<plot_confmat(yhat, y_validation)>>
    /\ pc' = NextCell(pc)
    /\ UNCHANGED <<sections, class_ratio, perf, models_supervised,
                   results_supervised, files, results, comparison_df, train_df,
                   validation_df, X_train, y_train, X_validation, y_validation,
                   scaler, X_train_norm, X_validation_norm,
                   models_unsupervised, fit_log, results_unsupervised,
                   autoencoder, epoch, best, min_seen, model_h5, trained_model,
                   train_mse, thresh_train, val_mse, yhat, pred, anomaly_score,
                   perf_autoencoder, twin_df, twin_validation_norm,
                   twin_autoencoder, twin_best, twin_h5, twin_trained,
                   twin_mse, twin_thresh, val_loss_of, twin_val_loss_of>>

Next ==
    \/ SelectFeatures
    \/ ClassRatio
    \/ CellRaises
    \/ ScalerFit
    \/ TransformTrain
    \/ TransformValidation
    \/ \E k \in DOMAIN ModelNames : FitUnsupervised(ModelNames[k])
    \/ \E k \in DOMAIN ModelNames : EvalUnsupervised(ModelNames[k])
    \/ PlotUnsupervised
    \/ CompileAndEnterFit
    \/ FitEpoch
    \/ FitReturn
    \/ ThresholdCell
    \/ ValidationCell
    \/ PlotAutoencoder

Spec == Init /\ [][Next]_vars

\* ------------------------------------------- two runs, two held-out sets
\* The same notebook run twice on the same training file, initial weights
\* and shuffles, with different held-out files: validation_df in the first
\* run, twin_df in the second.
InitTwin ==
    /\ pc = "select"
    /\ train_df \in {d \in DataSets : Len(d) = MaxRows} \cup {<<>>}
    /\ validation_df \in DataSets
    /\ twin_df \in DataSets \ {validation_df}
    /\ sections = WorkflowSections
    /\ Unset

SpecTwin == InitTwin /\ [][Next]_vars

\* ------------------------------------------ thresholding a reference set
\* The scenario of 100 scores of which 5 are strictly higher than the rest
E2E == [rows |-> 100, anomalies |-> 5]

\* the scores: the anomalies sit at rows p .. p + 4, the first kh of them
\* score hi1 and the others hi2; of the other rows the first kl score lo1
\* and the others lo2
E2EScores(lo1, lo2, hi1, hi2, kl, kh, p) ==
    [i \in 1..E2E.rows |->
        IF i \in p..(p + E2E.anomalies - 1)
        THEN Int2R(IF i - p < kh THEN hi1 ELSE hi2)
        ELSE Int2R(IF (IF i < p THEN i ELSE i - E2E.anomalies) <= kl
                   THEN lo1 ELSE lo2)]

InitE2E ==
    /\ pc = "e2e_percentile"
    /\ \E lo1, lo2, hi1, hi2 \in 0..E2EMaxScore :
       \E kl \in {0, 1, 47, 94}, kh \in {1, 3, 5}, p \in {1, 50, 96} :
          /\ lo1 <= lo2 /\ lo2 < hi1 /\ hi1 <= hi2
          /\ train_mse = E2EScores(lo1, lo2, hi1, hi2, kl, kh, p)
    /\ val_mse = train_mse
    /\ train_df = <<>> /\ validation_df = <<>> /\ twin_df = <<>>
    /\ X_train = <<>> /\ y_train = <<>>
    /\ X_validation = <<>> /\ y_validation = <<>>
    /\ scaler = <<>>
    /\ X_train_norm = <<>> /\ X_validation_norm = <<>>
    /\ models_unsupervised = [n \in Range(ModelNames) |-> <<>>]
    /\ fit_log = [n \in Fitted |-> <<>>]
    /\ results_unsupervised = [n \in Range(ModelNames) |-> <<>>]
    /\ autoencoder = <<>>
    /\ epoch = 0
    /\ val_loss_of = <<>> /\ twin_val_loss_of = <<>>
    /\ best = Inf /\ min_seen = Inf
    /\ model_h5 = <<>>
    /\ trained_model = <<>>
    /\ thresh_train = <<>>
    /\ yhat = <<>>
    /\ pred = <<>> /\ anomaly_score = <<>>
    /\ perf_autoencoder = <<>>
    /\ twin_validation_norm = <<>>
    /\ twin_autoencoder = <<>>
    /\ twin_best = Inf
    /\ twin_h5 = <<>>
    /\ twin_trained = <<>> /\ twin_mse = <<>> /\ twin_thresh = <<>>
    /\ sections = {}
    /\ class_ratio = <<>> /\ perf = <<>> /\ figure = <<>>
    /\ models_supervised = [n \in Range(SupervisedNames) |-> <<>>]
    /\ results_supervised = [n \in Range(SupervisedNames) |-> <<>>]
    /\ files = <<>>
    /\ results = <<>> /\ comparison_df = <<>>

\* thresh_train = np.percentile(train_mse, 95)
E2EPercentile ==
    /\ pc = "e2e_percentile"
    /\ thresh_train' = Percentile(train_mse, threshold_quantile)
    /\ pc' = "e2e_binarize"
    /\ UNCHANGED <<sections, class_ratio, perf, figure, models_supervised,
                   results_supervised, files, results, comparison_df, 
                   train_df, validation_df, X_train, y_train, X_validation,
                   y_validation, scaler, X_train_norm, X_validation_norm,
                   models_unsupervised, fit_log, results_unsupervised,
                   autoencoder, epoch, best, min_seen, model_h5, trained_model,
                   train_mse, val_mse, yhat, pred, anomaly_score,
                   perf_autoencoder, twin_df, twin_validation_norm,
                   twin_autoencoder, twin_best, twin_h5, twin_trained, twin_mse,
                   twin_thresh, val_loss_of, twin_val_loss_of>>

\* yhat = [0 if imse < thresh_train else 1 for imse in val_mse]
E2EBinarize ==
    /\ pc = "e2e_binarize"
    /\ yhat' = [i \in DOMAIN val_mse |->
                  Label(val_mse[i], BinarizeThreshold(thresh_train, val_mse))]
    /\ pc' = "e2e_done"
    /\ UNCHANGED <<sections, class_ratio, perf, figure, models_supervised,
                   results_supervised, files, results, comparison_df, 
                   train_df, validation_df, X_train, y_train, X_validation,
                   y_validation, scaler, X_train_norm, X_validation_norm,
                   models_unsupervised, fit_log, results_unsupervised,
                   autoencoder, epoch, best, min_seen, model_h5, trained_model,
                   train_mse, thresh_train, val_mse, pred, anomaly_score,
                   perf_autoencoder, twin_df, twin_validation_norm,
                   twin_autoencoder, twin_best, twin_h5, twin_trained, twin_mse,
                   twin_thresh, val_loss_of, twin_val_loss_of>>

NextE2E == E2EPercentile \/ E2EBinarize

SpecE2E == InitE2E /\ [][NextE2E]_vars

\* ------------------------------- baselines, persistence and comparison
\* models_supervised[model_name] = model.fit(X_train_norm, y_train)
FitSupervised(name) ==
    /\ pc = "fit_sup:" \o name
    /\ ~Raises(pc)
    /\ models_supervised' =
          [models_supervised EXCEPT ![name] = <<FitClassifier(name, X_train_norm, y_train)>>]
    /\ pc' = NextCell(pc)
    /\ UNCHANGED <<sections, class_ratio, perf, figure, results_supervised,
                   files, results, comparison_df, train_df, validation_df,
                   X_train, y_train, X_validation, y_validation, scaler,
                   X_train_norm, X_validation_norm, models_unsupervised,
                   fit_log, results_unsupervised, autoencoder, epoch, best,
                   min_seen, model_h5, trained_model, train_mse, thresh_train,
                   val_mse, yhat, pred, anomaly_score, perf_autoencoder,
                   twin_df, twin_validation_norm, twin_autoencoder, twin_best,
                   twin_h5, twin_trained, twin_mse, twin_thresh, val_loss_of,
                   twin_val_loss_of>>

\* one turn of the loop over models_supervised: yhat, anomaly_score,
\* perf = performance(yhat, y_validation, score=anomaly_score)
EvalSupervised(name) ==
    /\ pc = "eval_sup:" \o name
    /\ ~Raises(pc)
    /\ yhat' = predict_class(models_supervised[name][1], X_validation_norm)
    /\ anomaly_score' = predict_proba(models_supervised[name][1], X_validation_norm)
    /\ perf' = <<performance(yhat', y_validation, <<anomaly_score'>>)>>
    /\ results_supervised' = [results_supervised EXCEPT ![name] = perf']
    /\ pc' = NextCell(pc)
    /\ UNCHANGED <<sections, class_ratio, figure, models_supervised, files,
                   results, comparison_df, train_df, validation_df, X_train,
                   y_train, X_validation, y_validation, scaler, X_train_norm,
                   X_validation_norm, models_unsupervised, fit_log,
                   results_unsupervised, autoencoder, epoch, best, min_seen,
                   model_h5, trained_model, train_mse, thresh_train, val_mse,
                   pred, perf_autoencoder, twin_df, twin_validation_norm,
                   twin_autoencoder, twin_best, twin_h5, twin_trained,
                   twin_mse, twin_thresh, val_loss_of, twin_val_loss_of>>

\* plot_confmat(y_validation, results_supervised['KNeighborsClassifier']['yhat'])
PlotSupervised ==
    /\ pc = "plot:KNeighborsClassifier"
    /\ figure' = <<plot_confmat(y_validation,
                                results_supervised["KNeighborsClassifier"][1]["yhat"])>>
    /\ pc' = NextCell(pc)
    /\ UNCHANGED <<sections, class_ratio, perf, models_supervised,
                   results_supervised, files, results, comparison_df, train_df,
                   validation_df, X_train, y_train, X_validation, y_validation,
                   scaler, X_train_norm, X_validation_norm,
                   models_unsupervised, fit_log, results_unsupervised,
                   autoencoder, epoch, best, min_seen, model_h5, trained_model,
                   train_mse, thresh_train, val_mse, yhat, pred, anomaly_score,
                   perf_autoencoder, twin_df, twin_validation_norm,
                   twin_autoencoder, twin_best, twin_h5, twin_trained,
                   twin_mse, twin_thresh, val_loss_of, twin_val_loss_of>>

\* model_name = 'RandomForestClassifier'; model = models_supervised[model_name];
\* joblib.dump(model, '{}.model'.format(model_name))
DumpModel ==
    /\ pc = "dump_model"
    /\ files' = Merge(files,
                      [f \in {"RandomForestClassifier.model"} |->
                          joblib_dump(models_supervised["RandomForestClassifier"][1])])
    /\ pc' = NextCell(pc)
    /\ UNCHANGED <<sections, class_ratio, perf, figure, models_supervised,
                   results_supervised, results, comparison_df, train_df,
                   validation_df, X_train, y_train, X_validation, y_validation,
                   scaler, X_train_norm, X_validation_norm,
                   models_unsupervised, fit_log, results_unsupervised,
                   autoencoder, epoch, best, min_seen, model_h5, trained_model,
                   train_mse, thresh_train, val_mse, yhat, pred, anomaly_score,
                   perf_autoencoder, twin_df, twin_validation_norm,
                   twin_autoencoder, twin_best, twin_h5, twin_trained,
                   twin_mse, twin_thresh, val_loss_of, twin_val_loss_of>>

\* joblib.dump(scaler, 'scaler.model')
DumpScaler ==
    /\ pc = "dump_scaler"
    /\ files' = Merge(files, [f \in {"scaler.model"} |-> joblib_dump(scaler[1])])
    /\ pc' = NextCell(pc)
    /\ UNCHANGED <<sections, class_ratio, perf, figure, models_supervised,
                   results_supervised, results, comparison_df, train_df,
                   validation_df, X_train, y_train, X_validation, y_validation,
                   scaler, X_train_norm, X_validation_norm,
                   models_unsupervised, fit_log, results_unsupervised,
                   autoencoder, epoch, best, min_seen, model_h5, trained_model,
                   train_mse, thresh_train, val_mse, yhat, pred, anomaly_score,
                   perf_autoencoder, twin_df, twin_validation_norm,
                   twin_autoencoder, twin_best, twin_h5, twin_trained,
                   twin_mse, twin_thresh, val_loss_of, twin_val_loss_of>>

\* results = {**results_supervised, **results_unsupervised}; df gets one row
\* per model with the columns of metrics_
Compare ==
    /\ pc = "compare"
    /\ ~Raises(pc)
    /\ results' = Merge(Dict(results_supervised), Dict(results_unsupervised))
    /\ comparison_df' =
          [m \in DOMAIN results' |-> [k \in Range(metrics_) |-> results'[m][k]]]
    /\ pc' = NextCell(pc)
    /\ UNCHANGED <<sections, class_ratio, perf, figure, models_supervised,
                   results_supervised, files, train_df, validation_df, X_train,
                   y_train, X_validation, y_validation, scaler, X_train_norm,
                   X_validation_norm, models_unsupervised, fit_log,
                   results_unsupervised, autoencoder, epoch, best, min_seen,
                   model_h5, trained_model, train_mse, thresh_train, val_mse,
                   yhat, pred, anomaly_score, perf_autoencoder, twin_df,
                   twin_validation_norm, twin_autoencoder, twin_best, twin_h5,
                   twin_trained, twin_mse, twin_thresh, val_loss_of,
                   twin_val_loss_of>>

\* train.csv and validation.csv are read, by a run of the baselines
InitReport ==
    /\ pc = "select"
    /\ train_df \in LongDataSets \cup DataSets
    /\ validation_df \in LongDataSets \cup DataSets
    /\ twin_df = validation_df
    /\ sections = ReportSections
    /\ Unset

NextReport ==
    \/ SelectFeatures
    \/ ClassRatio
    \/ CellRaises
    \/ ScalerFit
    \/ TransformTrain
    \/ TransformValidation
    \/ \E k \in DOMAIN ModelNames : FitUnsupervised(ModelNames[k])
    \/ \E k \in DOMAIN ModelNames : EvalUnsupervised(ModelNames[k])
    \/ PlotUnsupervised
    \/ \E k \in DOMAIN SupervisedNames : FitSupervised(SupervisedNames[k])
    \/ \E k \in DOMAIN SupervisedNames : EvalSupervised(SupervisedNames[k])
    \/ PlotSupervised
    \/ DumpModel
    \/ DumpScaler
    \/ Compare

SpecReport == InitReport /\ [][NextReport]_vars

\* ------------------------------------------------ performance on its own
\* everything but the arguments and the result of a call is left unset
Idle ==
    /\ train_df = <<>> /\ validation_df = <<>> /\ twin_df = <<>>
    /\ X_train = <<>> /\ y_train = <<>> /\ X_validation = <<>>
    /\ scaler = <<>>
    /\ X_train_norm = <<>> /\ X_validation_norm = <<>>
    /\ models_unsupervised = [n \in Range(ModelNames) |-> <<>>]
    /\ fit_log = [n \in Fitted |-> <<>>]
    /\ results_unsupervised = [n \in Range(ModelNames) |-> <<>>]
    /\ autoencoder = <<>>
    /\ epoch = 0
    /\ val_loss_of = <<>> /\ twin_val_loss_of = <<>>
    /\ best = Inf /\ min_seen = Inf
    /\ model_h5 = <<>>
    /\ trained_model = <<>>
    /\ pred = <<>>
    /\ perf_autoencoder = <<>>
    /\ twin_validation_norm = <<>>
    /\ twin_autoencoder = <<>>
    /\ twin_best = Inf
    /\ twin_h5 = <<>>
    /\ twin_trained = <<>> /\ twin_mse = <<>> /\ twin_thresh = <<>>
    /\ sections = {}
    /\ class_ratio = <<>> /\ figure = <<>>
    /\ models_supervised = [n \in Range(SupervisedNames) |-> <<>>]
    /\ results_supervised = [n \in Range(SupervisedNames) |-> <<>>]
    /\ files = <<>>
    /\ results = <<>> /\ comparison_df = <<>>

\* the labels a score predicts: anomaly from 0 upwards
LabelsOfScore(score) == [i \in DOMAIN score |-> IF RLe(Zero, score[i]) THEN 1 ELSE 0]

\* A call of performance: true labels y_validation of 1..MaxLabels rows and
\* either predicted labels alone or a score with the labels it predicts.
InitMetrics ==
    /\ pc = "performance"
    /\ \E n \in 1..MaxLabels :
          /\ y_validation \in [1..n -> {0, 1}]
          /\ \/ /\ anomaly_score = <<>>
                /\ yhat \in [1..n -> {0, 1}]
             \/ /\ anomaly_score \in [1..n -> {Int2R(v) : v \in (-1)..(MaxLabels - 2)}]
                /\ yhat = LabelsOfScore(anomaly_score)
    /\ perf = <<>>
    /\ train_mse = <<>> /\ thresh_train = <<>> /\ val_mse = <<>>
    /\ Idle

\* perf = performance(yhat, y_validation, score=anomaly_score)
PerformanceWithScore ==
    /\ pc = "performance"
    /\ anomaly_score # <<>>
    /\ perf' = <<performance(yhat, y_validation, <<anomaly_score>>)>>
    /\ pc' = "performance_done"
    /\ UNCHANGED <<sections, class_ratio, figure, models_supervised,
                   results_supervised, files, results, comparison_df, train_df,
                   validation_df, X_train, y_train, X_validation, y_validation,
                   scaler, X_train_norm, X_validation_norm,
                   models_unsupervised, fit_log, results_unsupervised,
                   autoencoder, epoch, best, min_seen, model_h5, trained_model,
                   train_mse, thresh_train, val_mse, yhat, pred, anomaly_score,
                   perf_autoencoder, twin_df, twin_validation_norm,
                   twin_autoencoder, twin_best, twin_h5, twin_trained,
                   twin_mse, twin_thresh, val_loss_of, twin_val_loss_of>>

\* performance(yhat, y_validation)
PerformanceWithoutScore ==
    /\ pc = "performance"
    /\ anomaly_score = <<>>
    /\ perf' = <<performance(yhat, y_validation, <<>>)>>
    /\ pc' = "performance_done"
    /\ UNCHANGED <<sections, class_ratio, figure, models_supervised,
                   results_supervised, files, results, comparison_df, train_df,
                   validation_df, X_train, y_train, X_validation, y_validation,
                   scaler, X_train_norm, X_validation_norm,
                   models_unsupervised, fit_log, results_unsupervised,
                   autoencoder, epoch, best, min_seen, model_h5, trained_model,
                   train_mse, thresh_train, val_mse, yhat, pred, anomaly_score,
                   perf_autoencoder, twin_df, twin_validation_norm,
                   twin_autoencoder, twin_best, twin_h5, twin_trained,
                   twin_mse, twin_thresh, val_loss_of, twin_val_loss_of>>

NextMetrics == PerformanceWithScore \/ PerformanceWithoutScore

SpecMetrics == InitMetrics /\ [][NextMetrics]_vars

\* ------------------------------------------- thresholding training scores
\* Any 1..MaxScores training scores, thresholded and then binarized
\* themselves: what the policy says about the training rows.
InitScores ==
    /\ pc = "e2e_percentile"
    /\ \E n \in 1..MaxScores :
          train_mse \in [1..n -> {Int2R(v) : v \in 0..E2EMaxScore}]
    /\ val_mse = train_mse
    /\ thresh_train = <<>> /\ yhat = <<>>
    /\ y_validation = <<>> /\ anomaly_score = <<>> /\ perf = <<>>
    /\ Idle

SpecScores == InitScores /\ [][NextE2E]_vars

\* ------------------------------- thresholding scores in floating point
\* 1..MaxRows training scores that are floating-point numbers, thresholded
\* with the rounding of np.percentile and then binarized themselves
InitRounded ==
    /\ pc = "rounded_percentile"
    /\ \E n \in 1..MaxRows : train_mse \in [1..n -> Significands]
    /\ val_mse = train_mse
    /\ thresh_train = <<>> /\ yhat = <<>>
    /\ y_validation = <<>> /\ anomaly_score = <<>> /\ perf = <<>>
    /\ Idle

\* thresh_train = np.percentile(train_mse, 95), in floating point
RoundedPercentile ==
    /\ pc = "rounded_percentile"
    /\ thresh_train' = PercentileRounded(train_mse, threshold_quantile)
    /\ pc' = "e2e_binarize"
    /\ UNCHANGED <<sections, class_ratio, perf, figure, models_supervised,
                   results_supervised, files, results, comparison_df, train_df,
                   validation_df, X_train, y_train, X_validation, y_validation,
                   scaler, X_train_norm, X_validation_norm,
                   models_unsupervised, fit_log, results_unsupervised,
                   autoencoder, epoch, best, min_seen, model_h5, trained_model,
                   train_mse, val_mse, yhat, pred, anomaly_score,
                   perf_autoencoder, twin_df, twin_validation_norm,
                   twin_autoencoder, twin_best, twin_h5, twin_trained,
                   twin_mse, twin_thresh, val_loss_of, twin_val_loss_of>>

NextRounded == RoundedPercentile \/ E2EBinarize

SpecRounded == InitRounded /\ [][NextRounded]_vars

\* ======================================================== the claims
CheckpointTrainErrors == ReconstructionErrors(trained_model[1], X_train_norm)

\* C1: thresholding is boundary-inclusive.  Once the validation scores are
\* binarized, a row is labelled 1 iff its score is >= thresh_train and 0 iff
\* it is < thresh_train (a score equal to the threshold is an anomaly), and
\* a row with a larger score than an anomaly is an anomaly too.
C1_ThresholdInclusive ==
    pc = "done" =>
        /\ DOMAIN yhat = DOMAIN val_mse
        /\ \A i \in DOMAIN val_mse :
              /\ yhat[i] \in {0, 1}
              /\ (yhat[i] = 1) <=> RLe(thresh_train, val_mse[i])
              /\ (yhat[i] = 0) <=> RLt(val_mse[i], thresh_train)
        /\ \A i, j \in DOMAIN val_mse :
              (yhat[i] = 1 /\ RLt(val_mse[i], val_mse[j])) => yhat[j] = 1

\* a validation score equal to the threshold was labelled anomaly, next to
\* a row labelled normal
C1_Witness ==
    /\ pc = "done"
    /\ \E i, j \in DOMAIN val_mse :
          val_mse[i] = thresh_train /\ yhat[i] = 1 /\ yhat[j] = 0

\* C2: the threshold is the 95th percentile of the training scores of the
\* loaded model, is set by the threshold cell alone, never changes after
\* it, and every validation row is binarized against that value.
C2_ThresholdFromTraining ==
    /\ [](Past("threshold") =>
            thresh_train = Percentile(CheckpointTrainErrors, 95))
    /\ [](pc = "done" =>
            \A i \in DOMAIN val_mse :
                yhat[i] = Label(val_mse[i], Percentile(CheckpointTrainErrors, 95)))
    /\ [][thresh_train' # thresh_train => pc = "threshold"]_vars

\* the validation scores were binarized, and their own 95th percentile
\* would have labelled some row otherwise
C2_Witness ==
    /\ pc = "done"
    /\ \E i \in DOMAIN val_mse :
          yhat[i] # Label(val_mse[i], Percentile(val_mse, 95))

\* C3: the scaler holds the statistics of the training features from its
\* fit on; no transform changes them, and transforming X_train or
\* X_validation again gives what the first transform gave.
C3_ScalerFitOnce ==
    /\ [](pc \in {"fit:OneClassSVM", "done"} =>
            /\ scaler = <<RobustScalerFit(X_train)>>
            /\ Scaled(scaler[1], X_train) = X_train_norm
            /\ Scaled(scaler[1], X_validation) = X_validation_norm)
    /\ [][Past("scaler_fit") => scaler' = scaler]_vars

\* both transforms ran, on different data, and a refit on the validation
\* features would have given other statistics
C3_Witness ==
    /\ pc = "done"
    /\ X_train # X_validation
    /\ RobustScalerFit(X_validation) # scaler[1]

\* C5: performance always returns 'accuracy'; with a score (the loop over
\* the statistical scorers) it also returns 'FP_TP' and 'AUC'; without one
\* (the autoencoder cell) it returns 'accuracy' and nothing else.
C5_PerformanceKeys ==
    /\ \A n \in Range(ModelNames) :
          results_unsupervised[n] # <<>> =>
              {"accuracy", "FP_TP", "AUC"} \subseteq DOMAIN results_unsupervised[n][1]
    /\ pc = "done" => DOMAIN perf_autoencoder[1] = {"accuracy"}

\* performance was called with a score and without one
C5_Witness ==
    /\ pc = "done"
    /\ "AUC" \in DOMAIN results_unsupervised["OneClassSVM"][1]
    /\ "AUC" \notin DOMAIN perf_autoencoder[1]

\* C6: after every pass model.h5 holds the weights of a pass of least
\* held-out loss so far; it is overwritten only by a pass of strictly lower
\* held-out loss; scores and threshold come from the file, not from the
\* weights of the last pass.
C6_CheckpointIsBest ==
    /\ []((pc = "fit_autoencoder" /\ epoch > 0) =>
            /\ model_h5 # <<>>
            /\ val_loss_of[model_h5[1]] = min_seen
            /\ best = min_seen)
    /\ [](Past("threshold") =>
            /\ trained_model = model_h5
            /\ train_mse = ReconstructionErrors(model_h5[1], X_train_norm)
            /\ thresh_train = Percentile(train_mse, 95))
    /\ [][model_h5' # model_h5 =>
            /\ RLt(val_loss_of'[autoencoder'[1]], best)
            /\ model_h5' = autoencoder']_vars

\* the threshold was computed while the last pass had left other weights,
\* of a worse held-out loss, than the file holds
C6_Witness ==
    /\ Past("threshold")
    /\ autoencoder # model_h5
    /\ RLt(val_loss_of[model_h5[1]], val_loss_of[autoencoder[1]])
    /\ trained_model = model_h5

\* C7: training runs exactly 100 passes: never more, and fit has not
\* returned before the 100th.
C7_FixedPasses ==
    /\ epoch \in 0..100
    /\ Past("fit_autoencoder") => epoch = 100

\* fit returned after 100 passes although the last pass was worse on the
\* held-out data than the best one
C7_Witness ==
    /\ pc = "threshold"
    /\ epoch = 100
    /\ RLt(best, val_loss_of[autoencoder[1]])

FeatureColumns24 ==
    {"setting1", "setting2", "setting3",
     "s1", "s2", "s3", "s4", "s5", "s6", "s7", "s8", "s9", "s10", "s11",
     "s12", "s13", "s14", "s15", "s16", "s17", "s18", "s19", "s20", "s21"}

\* the scaled value of column c of row i of the training file
ScaledTrainingCell(i, c) ==
    RDiv(RSub(Int2R(train_df[i][c]), scaler[1].center_[c]), scaler[1].scale_[c])

\* C9: what OneClassSVM, EllipticEnvelope and the autoencoder are fit on has
\* exactly the 24 columns setting1..setting3, s1..s21, each cell the scaled
\* cell of the training file; the scorers get no target and the autoencoder
\* gets its own input as target (and held-out data of the same 24 columns);
\* id, cycle, RUL and label are in none of them.
C9_FitOnFeaturesOnly ==
    \A m \in Fitted :
        fit_log[m] # <<>> =>
            /\ Len(fit_log[m][1].X) = Len(train_df)
            /\ \A i \in DOMAIN fit_log[m][1].X :
                  /\ DOMAIN fit_log[m][1].X[i] = FeatureColumns24
                  /\ DOMAIN fit_log[m][1].X[i] \cap {"id", "cycle", "RUL", "label"} = {}
            /\ (pc # "fit_autoencoder") =>
                  \A i \in DOMAIN fit_log[m][1].X : \A c \in FeatureColumns24 :
                      fit_log[m][1].X[i][c] = ScaledTrainingCell(i, c)
            /\ IF m = "autoencoder"
               THEN /\ fit_log[m][1].y = <<fit_log[m][1].X>>
                    /\ \A i \in DOMAIN fit_log[m][1].validation_data :
                          DOMAIN fit_log[m][1].validation_data[i] = FeatureColumns24
               ELSE fit_log[m][1].y = <<>>

\* all three were fit, on a training file whose label column is not constant
C9_Witness ==
    /\ \A m \in Fitted : fit_log[m] # <<>>
    /\ \E i, j \in DOMAIN train_df : train_df[i]["label"] # train_df[j]["label"]

\* the scorer whose results the evaluation loop has just stored
JustEvaluated(name) == pc = NextCell("eval:" \o name)

\* C10: for both statistical scorers the anomaly score is the negated
\* decision value, a row is labelled 1 exactly when predict gave -1, and no
\* row labelled 0 has a larger anomaly score than a row labelled 1.
C10_ScoreConsistentWithLabel ==
    \A n \in Range(ModelNames) :
        JustEvaluated(n) =>
            /\ \A i \in DOMAIN yhat :
                  /\ anomaly_score[i] =
                        RNeg(decision_function(models_unsupervised[n][1], X_validation_norm)[i])
                  /\ pred[i] = predict(models_unsupervised[n][1], X_validation_norm)[i]
                  /\ (yhat[i] = 1) <=> (pred[i] = -1)
            /\ results_unsupervised[n][1]["yhat"] = yhat
            /\ \A i, j \in DOMAIN yhat :
                  (yhat[i] = 1 /\ yhat[j] = 0) => RLe(anomaly_score[j], anomaly_score[i])

\* a scorer labelled one validation row anomaly and another normal, with
\* different anomaly scores
C10_Witness ==
    \E n \in Range(ModelNames) :
        /\ JustEvaluated(n)
        /\ \E i, j \in DOMAIN yhat :
              yhat[i] = 1 /\ yhat[j] = 0 /\ RLt(anomaly_score[j], anomaly_score[i])

\* the rows of the reference set that have at least 95 scores strictly below
HighestRows ==
    {i \in DOMAIN val_mse :
        Cardinality({j \in DOMAIN val_mse : RLt(val_mse[j], val_mse[i])}) >= 95}

C8_HeldOutDoesNotMatter ==
    Past("threshold") =>
        /\ trained_model = twin_trained
        /\ train_mse = twin_mse
        /\ thresh_train = twin_thresh

\* C8 as amended: the two runs go through the same weights in every pass;
\* each retains a pass that is no worse on its own held-out data than the
\* pass just made; and scores and threshold agree whenever the two runs
\* load the same retained state.
C8_HeldOutOnlySelectsCheckpoint ==
    /\ autoencoder = twin_autoencoder
    /\ (pc = "fit_autoencoder" /\ epoch > 0) =>
          /\ twin_h5 # <<>>
          /\ twin_val_loss_of[twin_h5[1]] = twin_best
          /\ RLe(twin_best, twin_val_loss_of[twin_autoencoder[1]])
          /\ RLe(best, val_loss_of[autoencoder[1]])
    /\ (Past("threshold") /\ trained_model = twin_trained) =>
          /\ train_mse = twin_mse
          /\ thresh_train = twin_thresh

\* the two runs made the same passes, loaded different states and got
\* different thresholds
C8_Witness ==
    /\ Past("threshold")
    /\ autoencoder = twin_autoencoder
    /\ trained_model # twin_trained
    /\ thresh_train # twin_thresh

\* the mean over the 24 features of the squared difference of row x and r
RowMeanSquare(x, r) ==
    RDiv(RSum([k \in 1..24 |->
                 RMul(RSub(x[features[k]], r[features[k]]),
                      RSub(x[features[k]], r[features[k]]))]),
         Int2R(24))

\* scores is the per-sample reconstruction score of the rows of X
PerSampleScores(scores, X) ==
    /\ DOMAIN scores = 1..Len(X)
    /\ \A i \in DOMAIN X :
          /\ scores[i] = RowMeanSquare(X[i], Predict(trained_model[1], X)[i])
          /\ RLe(Zero, scores[i])
          /\ (scores[i] = Zero) <=> (Predict(trained_model[1], X)[i] = X[i])

\* C11: the reconstruction score is per sample.  train_mse has one entry per
\* training row and val_mse one per validation row; entry i is the mean over
\* the 24 features of the squared difference between row i and what the
\* loaded model reconstructs for it; it is >= 0, and 0 exactly when the row
\* is reconstructed perfectly.
C11_PerSampleScore ==
    /\ Past("threshold") => PerSampleScores(train_mse, X_train_norm)
    /\ Past("validation") => PerSampleScores(val_mse, X_validation_norm)

\* two validation rows were scored, one reconstructed perfectly and one not
C11_Witness ==
    /\ Past("validation")
    /\ Len(val_mse) = 2
    /\ \E i, j \in DOMAIN val_mse : val_mse[i] = Zero /\ RLt(Zero, val_mse[j])

\* every predicted label is the inverse of the true label
Inverted == \A i \in DOMAIN y_validation : yhat[i] = 1 - y_validation[i]

\* C12: the accuracy performance returns is 1 when the predicted labels equal
\* the true labels element for element, and 0 when every predicted label is
\* the inverse of the true one, for every non-empty binary label vector,
\* whatever the balance of its classes.
C12_AccuracyExtremes ==
    pc = "performance_done" =>
        /\ yhat = y_validation => perf[1]["accuracy"] = One
        /\ Inverted => perf[1]["accuracy"] = Zero

\* an inverted prediction of labels whose classes are not balanced
C12_Witness ==
    /\ pc = "performance_done"
    /\ Inverted
    /\ Cardinality({i \in DOMAIN y_validation : y_validation[i] = 1})
          > Cardinality({i \in DOMAIN y_validation : y_validation[i] = 0})
    /\ Cardinality({i \in DOMAIN y_validation : y_validation[i] = 0}) > 0
    /\ perf[1]["accuracy"] = Zero

\* both classes occur, and every anomaly scores strictly above every normal
PerfectRanking ==
    /\ {0, 1} \subseteq Range(y_validation)
    /\ \A i, j \in DOMAIN y_validation :
          (y_validation[i] = 1 /\ y_validation[j] = 0) =>
              RLt(anomaly_score[j], anomaly_score[i])

\* C13: the AUC performance returns for a perfect ranking is 1.
C13_PerfectRankingAUC ==
    (pc = "performance_done" /\ anomaly_score # <<>> /\ PerfectRanking) =>
        perf[1]["AUC"] = One

\* a perfect ranking of three rows whose predicted labels are not all right
C13_Witness ==
    /\ pc = "performance_done"
    /\ anomaly_score # <<>>
    /\ PerfectRanking
    /\ Len(y_validation) = 3
    /\ yhat # y_validation
    /\ perf[1]["AUC"] = One

\* feature tables with the column schema of the training data: those of
\* every data file of the model, the training and the validation file included
SameSchemaInputs ==
    {Select(d, features) : d \in DataSets \cup LongDataSets}

\* the scaler and the classifier as loaded from their files
LoadedScaler == joblib_load(files["scaler.model"])
LoadedModel == joblib_load(files["RandomForestClassifier.model"])

C15_EmptyTrainingSetIsFatal ==
    /\ [](train_df = <<>> =>
            /\ pc \in {"select", "class_ratio", "error"}
            /\ scaler = <<>> /\ model_h5 = <<>>
            /\ train_mse = <<>> /\ thresh_train = <<>>
            /\ val_mse = <<>> /\ yhat = <<>> /\ pred = <<>>)
    /\ [][(train_df = <<>> /\ pc = "class_ratio") => pc' = "error"]_vars
    /\ [][pc # "error"]_vars

\* the run on an empty training file has stopped with the exception
C15_Witness ==
    /\ train_df = <<>>
    /\ validation_df # <<>>
    /\ pc = "error"

\* the names under which the loops store results
AllModelNames == Range(SupervisedNames) \cup Range(ModelNames)

\* C16: the four classifier names and the two scorer names are six distinct
\* names; every result either loop stores has 'accuracy' and 'AUC'; the
\* merged mapping has exactly one entry per name, each the result its loop
\* stored (nothing is overwritten); and the table is built, with both
\* metrics for every model, without a missing key.
C16_ReportingMapping ==
    /\ Cardinality(AllModelNames) = Len(SupervisedNames) + Len(ModelNames)
    /\ Cardinality(AllModelNames) = 6
    /\ \A n \in Range(SupervisedNames) :
          results_supervised[n] # <<>> =>
              {"accuracy", "AUC"} \subseteq DOMAIN results_supervised[n][1]
    /\ \A n \in Range(ModelNames) :
          results_unsupervised[n] # <<>> =>
              {"accuracy", "AUC"} \subseteq DOMAIN results_unsupervised[n][1]
    /\ pc = "compare" => ~Raises("compare")
    /\ Past("compare") =>
          /\ DOMAIN results = AllModelNames
          /\ \A n \in Range(SupervisedNames) : results[n] = results_supervised[n][1]
          /\ \A n \in Range(ModelNames) : results[n] = results_unsupervised[n][1]
          /\ DOMAIN comparison_df = AllModelNames
          /\ \A n \in AllModelNames :
                /\ DOMAIN comparison_df[n] = {"accuracy", "AUC"}
                /\ comparison_df[n]["accuracy"] = results[n]["accuracy"]
                /\ comparison_df[n]["AUC"] = results[n]["AUC"]

\* the table is built, and two models differ in a metric
C16_Witness ==
    /\ Past("compare")
    /\ \E m, n \in DOMAIN comparison_df :
          comparison_df[m]["accuracy"] # comparison_df[n]["accuracy"]

\* the labels predicted by the model whose confusion matrix was plotted last
PlottedPrediction ==
    IF Past("plot:autoencoder") THEN yhat
    ELSE IF Past("plot:KNeighborsClassifier") /\ "Supervised learning" \in sections
         THEN results_supervised["KNeighborsClassifier"][1]["yhat"]
         ELSE results_unsupervised["OneClassSVM"][1]["yhat"]

\* C17: every confusion matrix plotted has the true labels along the axis
\* titled 'True' and the predicted labels along the axis titled 'Predicted':
\* it is the matrix of (y_validation, predicted labels), in this order.
C17_TrueLabelsOnTrueAxis ==
    figure # <<>> =>
        /\ figure[1].ylabel = "True" /\ figure[1].rows = y_validation
        /\ figure[1].xlabel = "Predicted" /\ figure[1].columns = PlottedPrediction
        /\ figure[1].conf_matrix = confusion_matrix(y_validation, PlottedPrediction)

\* the plots of the one-class SVM and of the nearest-neighbour classifier
\* have the true labels along 'True'
C17_BaselinePlotsTrueOnTrueAxis ==
    (figure # <<>> /\ ~Past("plot:autoencoder")) =>
        /\ figure[1].rows = y_validation
        /\ figure[1].columns = PlottedPrediction
        /\ figure[1].conf_matrix = confusion_matrix(y_validation, PlottedPrediction)

\* the autoencoder's matrix was plotted with a false alarm and no miss: the
\* plot shows it in the row 'True' = 1, as if it were a missed anomaly
C17_SwappedPlot ==
    /\ Past("plot:autoencoder")
    /\ figure[1].rows = yhat /\ figure[1].columns = y_validation
    /\ \E i \in DOMAIN yhat : yhat[i] = 1 /\ y_validation[i] = 0
    /\ \A i \in DOMAIN yhat : ~(yhat[i] = 0 /\ y_validation[i] = 1)
    /\ figure[1].conf_matrix[1][0] > 0
    /\ confusion_matrix(y_validation, yhat)[1][0] = 0

\* C18: for non-empty training scores the threshold (their 95th percentile,
\* linearly interpolated) is no less than the least and no more than the
\* greatest of them; binarized against it, a training row of the greatest
\* score is labelled anomaly, and when all training scores are equal every
\* row is.
C18_ThresholdWithinRange ==
    /\ pc \in {"e2e_binarize", "e2e_done"} =>
          /\ \E i \in DOMAIN train_mse : RLe(train_mse[i], thresh_train)
          /\ \E j \in DOMAIN train_mse : RLe(thresh_train, train_mse[j])
    /\ pc = "e2e_done" =>
          /\ \A j \in DOMAIN train_mse :
                (\A i \in DOMAIN train_mse : RLe(train_mse[i], train_mse[j])) =>
                    yhat[j] = 1
          /\ (\A i, j \in DOMAIN train_mse : train_mse[i] = train_mse[j]) =>
                \A i \in DOMAIN yhat : yhat[i] = 1

\* two equal training scores whose threshold, as rounded, lies above them:
\* both rows are labelled normal
C18_RoundedAboveMaximum ==
    /\ pc = "e2e_done"
    /\ Len(train_mse) = 2
    /\ train_mse[1] = train_mse[2]
    /\ RLt(train_mse[1], thresh_train)
    /\ \A i \in DOMAIN yhat : yhat[i] = 0
====
